---- MODULE Spec2Model ----
(***************************************************************************)
(* Model of the R0-estimation pipeline of data/scripts/R0_estimator.py     *)
(* (get_Re_guess and the transforms it chains) and of Fitter.fit of        *)
(* scripts/scenarios.py.                                                   *)
(*                                                                         *)
(* Numbers.  A float is carried in fixed point, in thousandths: the count  *)
(* 3 is 3000, ln(2) is 693.  An array element is a record                  *)
(*     [mask, nan, e, val]                                                 *)
(* mask: the numpy.ma mask bit of the element (FALSE in a plain ndarray);  *)
(* nan : the payload is NaN (val is then 0);                               *)
(* e   : the payload is the positive float exp(val/1000), kept by its      *)
(*       exponent (the output of np.ma.exp);                               *)
(* val : the payload in thousandths.                                       *)
(* A channel is None (the Python None) or Arr(s), an array.  Only the      *)
(* channels T, D, H, C are ever read or written by the code; the other     *)
(* compartments stay None and are left out.                                *)
(***************************************************************************)
EXTENDS Integers, Sequences, FiniteSets, TLC

VARIABLES pc, time, cases, step, extremal_points,
          diff_data, log_data, smoothed_log_diff, data_log_smoothed,
          growth_rate, R0_by_day, fits, fit,
          pop, fit_result

vars == <<pc, time, cases, step, extremal_points,
          diff_data, log_data, smoothed_log_diff, data_log_smoothed,
          growth_rate, R0_by_day, fits, fit, pop, fit_result>>

-----------------------------------------------------------------------------
(* Bounds of the model *)

\* longest time array of a pipeline run
MaxLen == 6
\* largest lag (step) handed to get_Re_guess
MaxStep == 4
\* first ordinal day of a time array
FirstDay == 30

-----------------------------------------------------------------------------
(* Elements, arrays, the channel structure *)

Channels == {"T", "D", "H", "C"}

Num(v)  == [mask |-> FALSE, nan |-> FALSE, e |-> FALSE, val |-> v]
NaN     == [mask |-> FALSE, nan |-> TRUE,  e |-> FALSE, val |-> 0]
Masked(x) == [x EXCEPT !.mask = TRUE]
Unmasked(x) == [x EXCEPT !.mask = FALSE]

None    == [none |-> TRUE,  a |-> <<>>]
Arr(s)  == [none |-> FALSE, a |-> s]

Abs(x) == IF x < 0 THEN -x ELSE x
Min(x, y) == IF x <= y THEN x ELSE y

RECURSIVE SumSeq(_)
SumSeq(s) == IF s = <<>> THEN 0 ELSE Head(s) + SumSeq(Tail(s))

\* the subsequence of s at the positions i where keep[i] holds, in order
RECURSIVE SelectFrom(_, _, _)
SelectFrom(s, keep, i) ==
    IF i > Len(s) THEN <<>>
    ELSE (IF keep[i] THEN <<s[i]>> ELSE <<>>) \o SelectFrom(s, keep, i + 1)
Select(s, keep) == SelectFrom(s, keep, 1)

\* empty_data_list(): np.array([]) for D and T, None for the rest
empty_data_list == [c \in Channels |-> IF c \in {"D", "T"} THEN Arr(<<>>) ELSE None]

\* np.log of small positive counts, in thousandths
LnTable == <<0, 693, 1099, 1386, 1609, 1792, 1946, 2079, 2197, 2303,
             2398, 2485, 2565, 2639, 2708, 2773>>

\* np.log(x) for a positive float x: the exponent of an exp(..) payload, the
\* table for a whole count
Ln(x) == IF x.e THEN x.val ELSE LnTable[x.val \div 1000]

-----------------------------------------------------------------------------
(* get_daily_counts *)

\* np.diff
np_diff(s) == [i \in 1..(Len(s) - 1) |->
                 IF s[i].nan \/ s[i+1].nan THEN NaN ELSE Num(s[i+1].val - s[i].val)]

\* one channel: concatenate(([nan], diff)), zero -> nan, mask = isnan
DailyCounts(s) ==
    LET d == <<NaN>> \o np_diff(s)
        z == [i \in 1..Len(d) |-> IF ~d[i].nan /\ d[i].val = 0 THEN NaN ELSE d[i]]
    IN  [i \in 1..Len(z) |-> [z[i] EXCEPT !.mask = z[i].nan]]

get_daily_counts(data) ==
    [c \in Channels |->
        IF c \in {"T", "D"}
        THEN IF ~data[c].none THEN Arr(DailyCounts(data[c].a)) ELSE None
        ELSE empty_data_list[c]]

-----------------------------------------------------------------------------
(* get_log, smooth, log_smooth *)

\* np.ma.log of one element: a domained masked operation.  The result is
\* masked where the input is masked, not finite or <= 0, and a masked
\* position keeps the payload of the input.
ma_log(x) ==
    IF x.nan THEN Masked(x)
    ELSE IF ~x.e /\ x.val <= 0 THEN Masked(x)
    ELSE IF x.mask THEN x
    ELSE Num(Ln(x))

\* np.ma.exp of one element: no domain; a masked position keeps its payload
ma_exp(x) ==
    IF x.mask \/ x.nan THEN x
    ELSE [mask |-> FALSE, nan |-> FALSE, e |-> TRUE, val |-> x.val]

get_log(data) ==
    [c \in Channels |->
        IF ~data[c].none THEN Arr([i \in 1..Len(data[c].a) |-> ma_log(data[c].a[i])])
        ELSE empty_data_list[c]]

\* ndimage 'mirror' extension: index i (any integer) reflected into 1..n
MirrorIdx(i, n) ==
    IF n = 1 THEN 1
    ELSE LET p == 2 * (n - 1)
             j == (i - 1) % p
         IN  IF j < n THEN j + 1 ELSE p - j + 1

\* savgol_filter(x, w, 1, mode): polynomial order 1, so the window weights
\* are all 1/w.  x is a sequence of payloads in thousandths.
\* mode "mirror": the moving mean over the mirror-extended sequence.
\* mode "interp": the moving mean inside; the first and last w \div 2
\* values are read off the least-squares line through the first (last) w
\* values.
SavgolMirror(x, w) ==
    LET n == Len(x)
        h == w \div 2
    IN  [i \in 1..n |->
            SumSeq([k \in 1..w |-> x[MirrorIdx(i - h - 1 + k, n)]]) \div w]

SavgolInterp(x, w) ==
    LET n == Len(x)
        h == w \div 2
        Sxx == SumSeq([k \in 1..w |-> (k - 1 - h) * (k - 1 - h)])
        Line(first, pos) ==
            LET sy  == SumSeq([k \in 1..w |-> x[first + k - 1]])
                sxy == SumSeq([k \in 1..w |-> (k - 1 - h) * x[first + k - 1]])
            IN  (Sxx * sy + w * (pos - h) * sxy) \div (w * Sxx)
    IN  [i \in 1..n |->
            IF i <= h THEN Line(1, i - 1)
            ELSE IF i > n - h THEN Line(n - w + 1, i - (n - w + 1))
            ELSE SumSeq([k \in 1..w |-> x[i - h - 1 + k]]) \div w]

savgol_filter(x, w, mode) ==
    IF mode = "interp" THEN SavgolInterp(x, w) ELSE SavgolMirror(x, w)

\* smooth, one channel, as_int=False.  good_idx = ~np.isnan(a): for a masked
\* array both np.where(good_idx) and a[good_idx] go by the payload alone, so
\* a masked element whose payload is a number is "good".  np.put writes the
\* filtered values at the good positions and clears their mask.
GoodIdx(a) == Select([i \in 1..Len(a) |-> i], [i \in 1..Len(a) |-> ~a[i].nan])

SmoothChannel(a, nb_pts) ==
    LET good == GoodIdx(a)
        x    == [k \in 1..Len(good) |-> a[good[k]].val]
        y    == savgol_filter(x, nb_pts,
                              IF Len(good) > nb_pts THEN "interp" ELSE "mirror")
        Pos(i) == CHOOSE k \in 1..Len(good) : good[k] = i
    IN  [i \in 1..Len(a) |-> IF ~a[i].nan THEN Num(y[Pos(i)]) ELSE a[i]]

smooth(data, nb_pts) ==
    [c \in Channels |->
        IF ~data[c].none THEN Arr(SmoothChannel(data[c].a, nb_pts)) ELSE data[c]]

\* nb_pts of log_smooth
NbPts == 7

\* the exponential loop of log_smooth
log_smooth_exp(sm) ==
    [c \in Channels |->
        IF ~sm[c].none THEN Arr([i \in 1..Len(sm[c].a) |-> ma_exp(sm[c].a[i])])
        ELSE empty_data_list[c]]

log_smooth(data) == log_smooth_exp(smooth(get_log(data), NbPts))

-----------------------------------------------------------------------------
(* get_growth_rate *)

\* one channel.  (ma.log(a[step:]) - ma.log(a[:-step])) / step is masked
\* where either operand is; step masked NaNs are appended; then every
\* masked element is assigned np.nan, which also clears its mask.
GrowthChannel(a, st) ==
    LET n  == Len(a)
        m  == IF n > st THEN n - st ELSE 0
        hi == [i \in 1..m |-> ma_log(a[i + st])]
        lo == [i \in 1..m |-> ma_log(a[i])]
        d  == [i \in 1..m |->
                 IF hi[i].mask \/ lo[i].mask \/ hi[i].nan \/ lo[i].nan THEN NaN
                 ELSE Num((hi[i].val - lo[i].val) \div st)]
    IN  d \o [i \in 1..st |-> NaN]

get_growth_rate(data, st) ==
    [c \in Channels |->
        IF c \in {"T", "D"}
        THEN IF ~data[c].none THEN Arr(GrowthChannel(data[c].a, st)) ELSE None
        ELSE empty_data_list[c]]

-----------------------------------------------------------------------------
(* growth_rate_to_R0 *)

\* The calibration table of scripts/mapping.py: growth rates (per day) and
\* the R0 of each, both in thousandths, growth rates increasing.
GR_mapping  == <<-200, 0, 100, 300>>
R0s_mapping == <<500, 1000, 1600, 3000>>

\* np_interp continuing the first and last segments beyond the table
np_interp_extrapolating(x, xp, fp) ==
    LET N == Len(xp)
        j == IF x < xp[1] THEN 1
             ELSE IF x >= xp[N] THEN N - 1
             ELSE CHOOSE k \in 1..(N - 1) : xp[k] <= x /\ x < xp[k + 1]
    IN  fp[j] + ((fp[j + 1] - fp[j]) * (x - xp[j])) \div (xp[j + 1] - xp[j])

\* np.interp(x, xp, fp) for a number x: the edge value outside the table,
\* the linear interpolant inside, xp increasing
np_interp(x, xp, fp) ==
    LET N == Len(xp)
    IN  IF x < xp[1] THEN fp[1]
        ELSE IF x >= xp[N] THEN fp[N]
        ELSE LET j == CHOOSE k \in 1..(N - 1) : xp[k] <= x /\ x < xp[k + 1]
             IN  fp[j] + ((fp[j + 1] - fp[j]) * (x - xp[j])) \div (xp[j + 1] - xp[j])

\* one channel: np.interp reads the payloads (NaN gives NaN), the result is
\* a fresh masked array with mask = isnan
R0Channel(a) ==
    [i \in 1..Len(a) |->
        IF a[i].nan THEN Masked(NaN)
        ELSE Num(np_interp(a[i].val, GR_mapping, R0s_mapping))]

growth_rate_to_R0(data) ==
    [c \in Channels |->
        IF c \in {"T", "D"}
        THEN IF ~data[c].none THEN Arr(R0Channel(data[c].a)) ELSE None
        ELSE empty_data_list[c]]

-----------------------------------------------------------------------------
(* Rationals: the levels of a fit are means, kept as exact fractions       *)
(* [n, d] with d > 0.  d = 0 stands for a value that is not a finite       *)
(* number (NaN, inf, the numpy.ma masked constant): every comparison with  *)
(* it is false.                                                            *)

Rat(n, d) == [n |-> n, d |-> d]
RInt(k)   == Rat(k, 1)
RAdd(a, b) == Rat(a.n * b.d + b.n * a.d, a.d * b.d)
RSub(a, b) == Rat(a.n * b.d - b.n * a.d, a.d * b.d)
RAbs(a)    == Rat(Abs(a.n), a.d)
RHalf(a)   == Rat(a.n, 2 * a.d)
RDiv(a, b) == IF b.n = 0 THEN Rat(0, 0)
              ELSE IF b.n > 0 THEN Rat(a.n * b.d, a.d * b.n)
              ELSE Rat(-(a.n * b.d), a.d * (-b.n))
RLess(a, b) == a.d > 0 /\ b.d > 0 /\ a.n * b.d < b.n * a.d
REq(a, b)   == a.d > 0 /\ b.d > 0 /\ a.n * b.d = b.n * a.d

-----------------------------------------------------------------------------
(* stair_func, err_function, stair_fits *)

NoFit == [none |-> TRUE, val_o |-> Rat(0, 0), val_e |-> Rat(0, 0), drop |-> Rat(0, 0)]
Fit(o, e, d) == [none |-> FALSE, val_o |-> o, val_e |-> e, drop |-> d]

stair_func(tm, val_o, val_e, x_drop) ==
    [i \in 1..Len(tm) |-> IF tm[i] <= x_drop THEN val_o ELSE val_e]

\* np.sum(np.abs(vec - stair_func(..))): the sum runs over the unmasked
\* elements of vec.  The two levels are fractions; the sum is returned
\* multiplied by val_o.d * val_e.d, the same factor for every x_drop.
\* A length-1 operand is broadcast.
err_function(x_drop, tm, vec, val_o, val_e) ==
    LET st == stair_func(tm, val_o, val_e, x_drop)
        L  == IF Len(vec) >= Len(st) THEN Len(vec) ELSE Len(st)
        V(i) == vec[IF Len(vec) = 1 THEN 1 ELSE i]
        S(i) == st[IF Len(st) = 1 THEN 1 ELSE i]
    IN  SumSeq([i \in 1..L |->
                  IF V(i).mask THEN 0
                  ELSE Abs(V(i).val * val_o.d * val_e.d - S(i).n * ((val_o.d * val_e.d) \div S(i).d))])

\* np_argmin returning the last index of the least value
RECURSIVE ArgMinLastFrom(_, _, _)
ArgMinLastFrom(s, i, best) ==
    IF i > Len(s) THEN best
    ELSE ArgMinLastFrom(s, i + 1, IF s[i] <= s[best] THEN i ELSE best)
np_argmin_last(s) == ArgMinLastFrom(s, 2, 1)

\* np.argmin of a non-empty list: the first index of the least value
RECURSIVE ArgMinFrom(_, _, _)
ArgMinFrom(s, i, best) ==
    IF i > Len(s) THEN best
    ELSE ArgMinFrom(s, i + 1, IF s[i] < s[best] THEN i ELSE best)
np_argmin(s) == ArgMinFrom(s, 2, 1)

\* np.mean of the first / last nb_value unmasked values
ValidVals(vec) == Select(vec, [i \in 1..Len(vec) |-> ~vec[i].mask])
MeanFirst(vec, nb_value) ==
    LET v == ValidVals(vec)
        k == Min(nb_value, Len(v))
    IN  Rat(SumSeq([i \in 1..k |-> v[i].val]), k)
MeanLast(vec, nb_value) ==
    LET v == ValidVals(vec)
        k == Min(nb_value, Len(v))
    IN  Rat(SumSeq([i \in 1..k |-> v[Len(v) - k + i].val]), k)

\* one channel of stair_fits (the body of stair_fit)
stair_fit(tm, vec, nb_value) ==
    LET val_o == MeanFirst(vec, nb_value)
        val_e == MeanLast(vec, nb_value)
        errs  == [i \in 1..Len(tm) |->
                    IF val_o.d = 0 THEN 0
                    ELSE err_function(tm[i], tm, vec, val_o, val_e)]
    IN  Fit(val_o, val_e, RInt(tm[np_argmin(errs)]))

\* stair_fits raises ValueError: np.argmin of an empty list (empty time),
\* or operands of vec - stair_func(..) that cannot be broadcast
StairRaises(tm, data) ==
    \E c \in Channels :
        /\ ~data[c].none
        /\ \/ Len(tm) = 0
           \/ Len(data[c].a) # Len(tm) /\ Len(data[c].a) # 1 /\ Len(tm) # 1

stair_fits(tm, data, nb_value) ==
    [c \in Channels |->
        IF ~data[c].none THEN stair_fit(tm, data[c].a, nb_value) ELSE NoFit]

-----------------------------------------------------------------------------
(* combine_fits *)

\* drop_shift of combine_fits
DropShift == 9

\* CoherentFits with the breakpoint test off by one (<= for <)
CoherentFitsLoose(T, D) ==
    LET test1 == RLess(RDiv(RAbs(RSub(T.val_o, D.val_o)),
                            RHalf(RAdd(T.val_o, D.val_o))), Rat(4, 10))
        test2 == RLess(RDiv(RAbs(RSub(T.val_e, D.val_e)),
                            RHalf(RAdd(T.val_e, D.val_e))), Rat(3, 10))
        test3 == ~RLess(RInt(DropShift \div 2 + 1),
                        RAbs(RSub(RSub(D.drop, RInt(DropShift)), T.drop)))
    IN  test1 /\ test2 /\ test3

\* the three coherence tests of combine_fits
CoherentFits(T, D) ==
    LET test1 == RLess(RDiv(RAbs(RSub(T.val_o, D.val_o)),
                            RHalf(RAdd(T.val_o, D.val_o))), Rat(4, 10))
        test2 == RLess(RDiv(RAbs(RSub(T.val_e, D.val_e)),
                            RHalf(RAdd(T.val_e, D.val_e))), Rat(3, 10))
        test3 == RLess(RAbs(RSub(RSub(D.drop, RInt(DropShift)), T.drop)),
                       RInt(DropShift \div 2 + 1))
    IN  test1 /\ test2 /\ test3

\* the fit returned when the tests pass
AverageFit(T, D) ==
    Fit(RHalf(RAdd(T.val_o, D.val_o)),
        RHalf(RAdd(T.val_e, D.val_e)),
        RHalf(RAdd(T.drop, RSub(D.drop, RInt(DropShift)))))

\* combine_fits falling back to the death fit when there is no case fit
combine_fits_fallback_D(f) ==
    IF ~f["T"].none THEN
        IF ~f["D"].none THEN
            IF CoherentFits(f["T"], f["D"]) THEN AverageFit(f["T"], f["D"])
            ELSE f["T"]
        ELSE f["T"]
    ELSE f["D"]

combine_fits(f) ==
    IF ~f["T"].none THEN
        IF ~f["D"].none THEN
            IF CoherentFits(f["T"], f["D"]) THEN AverageFit(f["T"], f["D"])
            ELSE f["T"]
        ELSE f["T"]
    ELSE NoFit

-----------------------------------------------------------------------------
(* get_Re_guess: the pipeline, one step per call it makes *)

\* extremal_points of get_Re_guess
ExtremalPoints == 7

NoData == [c \in Channels |-> None]
NoFits == [c \in Channels |-> NoFit]
\* no call of Fitter.fit has returned yet
NoDate == [year |-> 0, month |-> 0, day |-> 0]
NoResult == [status |-> "none", tMin |-> NoDate, initialCases |-> 0, r0 |-> Rat(0, 0)]

\* a raw count array: plain floats
Raw(s) == Arr([i \in 1..Len(s) |-> Num(1000 * s[i])])

Days(n) == [i \in 1..n |-> FirstDay + i - 1]

\* cumulative series of length n from a first count and daily increments
Incs == {-1, 0, 1, 4}
FirstCount == 5
RECURSIVE CumSeries(_, _)
CumSeries(c, n) ==
    IF n = 0 THEN {<<>>}
    ELSE IF n = 1 THEN {<<c>>}
    ELSE UNION {{<<c>> \o s : s \in CumSeries(c + d, n - 1)} : d \in Incs}

Linear(n) == [i \in 1..n |-> i]

GetDailyCounts ==
    /\ pc = "start"
    /\ diff_data' = get_daily_counts(cases)
    /\ pc' = "diff"
    /\ UNCHANGED <<time, cases, step, extremal_points, log_data, smoothed_log_diff,
                   data_log_smoothed, growth_rate, R0_by_day, fits, fit, pop, fit_result>>

\* log_smooth(diff_data), with its locals kept
LogSmooth ==
    /\ pc = "diff"
    /\ log_data' = get_log(diff_data)
    /\ smoothed_log_diff' = smooth(get_log(diff_data), NbPts)
    /\ data_log_smoothed' = log_smooth(diff_data)
    /\ pc' = "smoothed"
    /\ UNCHANGED <<time, cases, step, extremal_points, diff_data,
                   growth_rate, R0_by_day, fits, fit, pop, fit_result>>

GetGrowthRate ==
    /\ pc = "smoothed"
    /\ growth_rate' = get_growth_rate(data_log_smoothed, step)
    /\ pc' = "growth"
    /\ UNCHANGED <<time, cases, step, extremal_points, diff_data, log_data,
                   smoothed_log_diff, data_log_smoothed, R0_by_day, fits, fit,
                   pop, fit_result>>

GrowthRateToR0 ==
    /\ pc = "growth"
    /\ R0_by_day' = growth_rate_to_R0(growth_rate)
    /\ pc' = "R0"
    /\ UNCHANGED <<time, cases, step, extremal_points, diff_data, log_data,
                   smoothed_log_diff, data_log_smoothed, growth_rate, fits, fit,
                   pop, fit_result>>

StairFits ==
    /\ pc = "R0"
    /\ IF StairRaises(time, R0_by_day)
       THEN pc' = "raised" /\ fits' = fits
       ELSE pc' = "fits" /\ fits' = stair_fits(time, R0_by_day, extremal_points)
    /\ UNCHANGED <<time, cases, step, extremal_points, diff_data, log_data,
                   smoothed_log_diff, data_log_smoothed, growth_rate, R0_by_day, fit,
                   pop, fit_result>>

CombineFits ==
    /\ pc = "fits"
    /\ fit' = combine_fits(fits)
    /\ pc' = "done"
    /\ UNCHANGED <<time, cases, step, extremal_points, diff_data, log_data,
                   smoothed_log_diff, data_log_smoothed, growth_rate, R0_by_day, fits,
                   pop, fit_result>>

\* get_Re_guess(time, cases, step) on channel arrays aligned with time
Init ==
    /\ pc = "start"
    /\ \E n \in 0..MaxLen :
          /\ time = Days(n)
          /\ \E t \in {None} \cup {Raw(s) : s \in CumSeries(FirstCount, n)},
                d \in {None, Raw(Linear(n))},
                h \in {None, Raw(Linear(n))} :
                cases = [c \in Channels |->
                            CASE c = "T" -> t [] c = "D" -> d [] c = "H" -> h [] OTHER -> None]
    /\ step \in 1..MaxStep
    /\ extremal_points = ExtremalPoints
    /\ diff_data = NoData /\ log_data = NoData /\ smoothed_log_diff = NoData
    /\ data_log_smoothed = NoData /\ growth_rate = NoData /\ R0_by_day = NoData
    /\ fits = NoFits /\ fit = NoFit
    /\ pop = <<>> /\ fit_result = NoResult

Next == \/ GetDailyCounts
        \/ LogSmooth
        \/ GetGrowthRate
        \/ GrowthRateToR0
        \/ StairFits
        \/ CombineFits

Spec == Init /\ [][Next]_vars

-----------------------------------------------------------------------------
(* Properties of the pipeline stages *)

PcOrd == [start |-> 0, diff |-> 1, smoothed |-> 2, growth |-> 3, R0 |-> 4,
          raised |-> 4, fits |-> 5, done |-> 6]
Reached(stage) == PcOrd[pc] >= PcOrd[stage]

\* an element that carries no value: masked, or a NaN payload
Missing(x) == x.mask \/ x.nan

\* C3: at every stage of the pipeline a channel whose input is absent (None)
\* has an absent output, never an array; and so from the input of
\* get_Re_guess to everything it returns.
C3_AbsentStaysAbsent ==
    \A c \in Channels :
        /\ Reached("diff") => (cases[c].none => diff_data[c].none)
        /\ Reached("smoothed") =>
              /\ diff_data[c].none => log_data[c].none
              /\ log_data[c].none => smoothed_log_diff[c].none
              /\ diff_data[c].none => data_log_smoothed[c].none
        /\ Reached("growth") => (data_log_smoothed[c].none => growth_rate[c].none)
        /\ Reached("R0") => (growth_rate[c].none => R0_by_day[c].none)
        /\ Reached("fits") => (R0_by_day[c].none => fits[c].none)
        /\ Reached("fits") =>
              (cases[c].none => /\ diff_data[c].none
                                /\ data_log_smoothed[c].none
                                /\ R0_by_day[c].none
                                /\ fits[c].none)

\* C4: get_growth_rate(series, step) returns, for a present channel of
\* length n, an array of length n whose last step positions are invalid and
\* whose position i holds (log x[i+step] - log x[i]) / step, invalid when
\* either end is: no value is taken from before the start or past the end.
C4_GrowthRateShape ==
    Reached("growth") =>
        \A c \in {"T", "D"} :
            ~data_log_smoothed[c].none =>
                LET x == data_log_smoothed[c].a
                    g == growth_rate[c].a
                    n == Len(x)
                IN  /\ ~growth_rate[c].none
                    /\ Len(g) = n
                    /\ \A i \in 1..Len(g) :
                          IF i > n - step THEN Missing(g[i])
                          ELSE IF Missing(x[i]) \/ Missing(x[i + step]) THEN Missing(g[i])
                          ELSE ~Missing(g[i]) /\
                               g[i].val = (Ln(x[i + step]) - Ln(x[i])) \div step

\* C6: get_daily_counts on a present cumulative channel of length n returns
\* an array of length n; position 0 is invalid; a later position holds the
\* difference to the day before when that is not zero and is invalid when
\* it is zero.
C6_DailyCounts ==
    Reached("diff") =>
        \A c \in {"T", "D"} :
            ~cases[c].none =>
                LET x == cases[c].a
                    d == diff_data[c].a
                IN  /\ ~diff_data[c].none
                    /\ Len(d) = Len(x)
                    /\ \A i \in 1..Len(d) :
                          IF i = 1 THEN Missing(d[i])
                          ELSE IF x[i].val = x[i - 1].val THEN Missing(d[i])
                          ELSE ~Missing(d[i]) /\ d[i].val = x[i].val - x[i - 1].val

\* C8: smooth (as_int=False) keeps, for every present channel, the length,
\* the missing positions (none lost, none added), and writes filtered
\* values at input-valid positions only.
C8_SmoothKeepsMissing ==
    Reached("smoothed") =>
        \A c \in Channels :
            ~log_data[c].none =>
                LET x == log_data[c].a
                    y == smoothed_log_diff[c].a
                IN  /\ ~smoothed_log_diff[c].none
                    /\ Len(y) = Len(x)
                    /\ \A i \in 1..Len(y) :
                          /\ Missing(x[i]) <=> Missing(y[i])
                          /\ y[i] # x[i] => ~Missing(x[i])

-----------------------------------------------------------------------------
(* The tail of the pipeline on its own: growth_rate_to_R0, stair_fits and  *)
(* combine_fits applied to growth-rate arrays aligned with time.  A        *)
(* growth-rate array ends with NaN (the overhang of get_growth_rate).      *)

\* longest time array with freely chosen growth rates
MaxFree == 4
\* longest time array of the tail runs
MaxFitLen == 8
\* largest extremal_points of the tail runs
MaxEdge == 2

\* growth rates in thousandths per day: below the table, its knots 0 and
\* 100, between two knots, above the table
GrowthVals == {-300, 0, 50, 100, 400}

RECURSIVE FreeSeries(_)
FreeSeries(n) ==
    IF n = 0 THEN {<<>>}
    ELSE {<<x>> \o s : x \in {NaN} \cup {Num(v) : v \in GrowthVals}, s \in FreeSeries(n - 1)}

\* NaN, b days at the early rate, g days of NaN, the rest at the late rate,
\* NaN
StepSeries(n, b, g, early, late) ==
    [i \in 1..n |-> IF i = 1 \/ i = n THEN NaN
                    ELSE IF i <= b + 1 THEN Num(early)
                    ELSE IF i <= b + 1 + g THEN NaN
                    ELSE Num(late)]

TSeries(n) ==
    IF n <= MaxFree THEN {s \o <<NaN>> : s \in FreeSeries(n - 1)}
    ELSE {StepSeries(n, b, g, x, y) :
             b \in 0..(n - 2), g \in {0, 1}, x \in {50, 100}, y \in {0, 50}}

DSeries(n) ==
    {[i \in 1..n |-> NaN]}
        \cup {StepSeries(n, b, 0, 100, 0) : b \in {1, n - 3} \cap (0..n)}

InitFit ==
    /\ pc = "growth"
    /\ \E n \in 1..MaxFitLen :
          /\ time = Days(n)
          /\ \E t \in TSeries(n), d \in DSeries(n) :
                growth_rate = [c \in Channels |->
                                  CASE c = "T" -> Arr(t) [] c = "D" -> Arr(d) [] OTHER -> None]
    /\ step = 1
    /\ extremal_points \in 1..MaxEdge
    /\ cases = NoData /\ diff_data = NoData /\ log_data = NoData
    /\ smoothed_log_diff = NoData /\ data_log_smoothed = NoData /\ R0_by_day = NoData
    /\ fits = NoFits /\ fit = NoFit
    /\ pop = <<>> /\ fit_result = NoResult

NextFit == \/ GrowthRateToR0
           \/ StairFits
           \/ CombineFits

SpecFit == InitFit /\ [][NextFit]_vars

-----------------------------------------------------------------------------
(* combine_fits on its own *)

\* widest gap between the two breakpoints
MaxShift == 20

TFits == {Fit(RInt(2000), RInt(1000), RInt(d)) : d \in {30, 31}}
DLevelsO == {RInt(1300), Rat(4000, 3), RInt(1400), RInt(2000), RInt(2100),
             RInt(2900), RInt(3000), RInt(3100)}
DLevelsE == {RInt(700), Rat(17000, 23), RInt(750), RInt(1000), RInt(1050),
             RInt(1350), Rat(23000, 17), RInt(1400)}
DFits == {Fit(o, e, RInt(30 + k)) : o \in DLevelsO, e \in DLevelsE, k \in 0..MaxShift}

InitCombine ==
    /\ pc = "fits"
    /\ \E t \in TFits \cup {NoFit}, d \in DFits \cup {NoFit} :
          fits = [c \in Channels |-> CASE c = "T" -> t [] c = "D" -> d [] OTHER -> NoFit]
    /\ time = <<>> /\ step = 1 /\ extremal_points = ExtremalPoints
    /\ cases = NoData /\ diff_data = NoData /\ log_data = NoData
    /\ smoothed_log_diff = NoData /\ data_log_smoothed = NoData
    /\ growth_rate = NoData /\ R0_by_day = NoData
    /\ fit = NoFit
    /\ pop = <<>> /\ fit_result = NoResult

NextCombine == CombineFits

SpecCombine == InitCombine /\ [][NextCombine]_vars

-----------------------------------------------------------------------------
(* Properties of combine_fits *)

\* |a - b| / ((a + b) / 2) < num / 10 for positive fractions a, b, with the
\* denominators multiplied out
RelDiffBelow(a, b, num) ==
    20 * Abs(a.n * b.d - b.n * a.d) < num * (a.n * b.d + b.n * a.d)

\* the three strict tests of the claim, on whole-day breakpoints
AllTestsHold(T, D) ==
    /\ RelDiffBelow(T.val_o, D.val_o, 4)
    /\ RelDiffBelow(T.val_e, D.val_e, 3)
    /\ Abs((D.drop.n - DropShift) - T.drop.n) < DropShift \div 2 + 1

\* r is the elementwise average of T and the shifted D
IsAverage(r, T, D) ==
    /\ ~r.none
    /\ r.val_o.d > 0 /\ r.val_e.d > 0 /\ r.drop.d > 0
    /\ 2 * r.val_o.n * T.val_o.d * D.val_o.d
          = r.val_o.d * (T.val_o.n * D.val_o.d + D.val_o.n * T.val_o.d)
    /\ 2 * r.val_e.n * T.val_e.d * D.val_e.d
          = r.val_e.d * (T.val_e.n * D.val_e.d + D.val_e.n * T.val_e.d)
    /\ 2 * r.drop.n = r.drop.d * (T.drop.n + D.drop.n - DropShift)

ExampleT   == Fit(RInt(2000), RInt(1000), RInt(30))
ExampleD   == Fit(RInt(2100), RInt(1050), RInt(39))
ExampleFar == Fit(RInt(2000), RInt(1000), RInt(50))

\* C1: with both fits present combine_fits returns the elementwise average
\* of fit_T and the shifted fit_D exactly when the three strict tests hold
\* (relative level differences below 0.4 and 0.3, breakpoint difference
\* below drop_shift//2 + 1) and fit_T unchanged otherwise, also when the
\* breakpoint difference equals drop_shift//2 + 1.  (2.0, 1.0, 30) with
\* (2.1, 1.05, 39) gives breakpoint 30; with (2.0, 1.0, 50) it gives fit_T.
C1_CombineWhenCoherent ==
    (pc = "done" /\ ~fits["T"].none /\ ~fits["D"].none) =>
        LET T == fits["T"]
            D == fits["D"]
        IN  /\ IF AllTestsHold(T, D) THEN IsAverage(fit, T, D) ELSE fit = T
            /\ Abs((D.drop.n - DropShift) - T.drop.n) = DropShift \div 2 + 1 => fit = T
            /\ (T = ExampleT /\ D = ExampleD) => REq(fit.drop, RInt(30))
            /\ (T = ExampleT /\ D = ExampleFar) => fit = ExampleT

\* the tests pass on the example and the averaged fit, not fit_T, is returned
C1_Witness ==
    /\ pc = "done"
    /\ fits["T"] = ExampleT /\ fits["D"] = ExampleD
    /\ IsAverage(fit, ExampleT, ExampleD)
    /\ fit # ExampleT

\* C2: combine_fits never uses the death fit on its own: without fit_D the
\* result is fit_T, without fit_T it is absent whatever fit_D is, and every
\* result is absent, fit_T, or the average of fit_T and the shifted fit_D.
C2_NeverDeathsAlone ==
    pc = "done" =>
        /\ fits["D"].none => fit = fits["T"]
        /\ fits["T"].none => fit.none
        /\ \/ fit.none
           \/ fit = fits["T"]
           \/ /\ ~fits["T"].none /\ ~fits["D"].none
              /\ IsAverage(fit, fits["T"], fits["D"])

\* a death fit with no case fit has been combined, and the result is absent
C2_Witness ==
    /\ pc = "done"
    /\ fits["T"].none /\ ~fits["D"].none
    /\ fit.none

-----------------------------------------------------------------------------
(* Properties of growth_rate_to_R0, stair_fits and the returned fit *)

\* the sum of f[i] over the indices i of a finite set
RECURSIVE SumOver(_, _)
SumOver(S, f) ==
    IF S = {} THEN 0
    ELSE LET i == CHOOSE j \in S : TRUE
         IN  f[i] + SumOver(S \ {i}, f)

\* r is the table's R0 of the growth rate g: the knot's R0 at a knot, the
\* edge R0 outside the table, the line between the two neighbouring knots
\* (rounded down to the thousandth) inside
OnTable(g, r) ==
    LET N == Len(GR_mapping)
    IN  /\ \A k \in 1..N : g = GR_mapping[k] => r = R0s_mapping[k]
        /\ g < GR_mapping[1] => r = R0s_mapping[1]
        /\ g > GR_mapping[N] => r = R0s_mapping[N]
        /\ \A k \in 1..(N - 1) :
              (GR_mapping[k] < g /\ g < GR_mapping[k + 1]) =>
                 LET w    == GR_mapping[k + 1] - GR_mapping[k]
                     rise == (R0s_mapping[k + 1] - R0s_mapping[k]) * (g - GR_mapping[k])
                 IN  /\ (r - R0s_mapping[k]) * w <= rise
                     /\ rise < (r - R0s_mapping[k] + 1) * w

\* C7: growth_rate_to_R0 maps each valid growth rate by linear interpolation
\* on the calibration table: a table knot gives exactly its R0, a growth
\* rate outside the table gives the nearest edge R0, every missing input
\* element gives a masked output element at the same position, and the
\* output is as long as the input.
C7_CalibrationMapping ==
    Reached("R0") =>
        \A c \in {"T", "D"} :
            ~growth_rate[c].none =>
                /\ ~R0_by_day[c].none
                /\ Len(R0_by_day[c].a) = Len(growth_rate[c].a)
                /\ \A i \in 1..Len(growth_rate[c].a) :
                      LET g == growth_rate[c].a[i]
                          r == R0_by_day[c].a[i]
                      IN  IF Missing(g) THEN r.mask
                          ELSE ~r.mask /\ ~r.nan /\ OnTable(g.val, r.val)

\* the case channel has been mapped with a knot, a growth rate below the
\* table, one inside a segment and a missing element
C7_Witness ==
    /\ pc = "R0"
    /\ ~R0_by_day["T"].none
    /\ LET g == growth_rate["T"].a
           r == R0_by_day["T"].a
       IN  /\ \E i \in 1..Len(g) : ~Missing(g[i]) /\ g[i].val = GR_mapping[3]
                                     /\ r[i] = Num(R0s_mapping[3])
           /\ \E i \in 1..Len(g) : ~Missing(g[i]) /\ g[i].val < GR_mapping[1]
                                     /\ r[i] = Num(R0s_mapping[1])
           /\ \E i \in 1..Len(g) : ~Missing(g[i]) /\ g[i].val > GR_mapping[2]
                                     /\ g[i].val < GR_mapping[3]
                                     /\ r[i].val > R0s_mapping[2] /\ r[i].val < R0s_mapping[3]
           /\ \E i \in 1..Len(g) : Missing(g[i]) /\ r[i].mask

\* the unmasked positions of an array
ValidIdx(vec) == {i \in 1..Len(vec) : ~vec[i].mask}

\* the first / last k unmasked positions
FirstValid(vec, k) ==
    {i \in ValidIdx(vec) : Cardinality({j \in ValidIdx(vec) : j < i}) < k}
LastValid(vec, k) ==
    {i \in ValidIdx(vec) : Cardinality({j \in ValidIdx(vec) : j > i}) < k}

\* the fraction q is the mean of vec over the positions S
IsMeanOf(q, vec, S) ==
    q.d > 0 /\ q.n * Cardinality(S) = q.d * SumOver(S, [i \in S |-> vec[i].val])

\* the sum over the unmasked points of |vec[t] - step(t)| for the step at x
\* with the levels of the fit f, multiplied by the levels' denominators
Deviation(f, tm, vec, x) ==
    SumOver(ValidIdx(vec),
            [i \in ValidIdx(vec) |->
                Abs(vec[i].val * f.val_o.d * f.val_e.d
                    - (IF tm[i] <= x THEN f.val_o.n * f.val_e.d
                                     ELSE f.val_e.n * f.val_o.d))])

\* C5: the breakpoint returned by stair_fits for a present channel is an
\* element of the time array, it minimizes over all candidate times x the sum
\* over unmasked points of |series[t] - step(t)| (early level up to x, late
\* level after it), the earliest time is returned among equal minimal sums,
\* and the two levels are the means of the first and last num_edge_points
\* unmasked values.
C5_StairFitMinimizes ==
    Reached("fits") =>
        \A c \in {"T", "D"} :
            ~R0_by_day[c].none =>
                LET vec == R0_by_day[c].a
                    f   == fits[c]
                    k   == Min(extremal_points, Cardinality(ValidIdx(vec)))
                IN  /\ ~f.none
                    /\ f.drop.d = 1
                    /\ \E i \in 1..Len(time) : time[i] = f.drop.n
                    /\ k >= 1 => /\ IsMeanOf(f.val_o, vec, FirstValid(vec, k))
                                 /\ IsMeanOf(f.val_e, vec, LastValid(vec, k))
                    /\ \A i \in 1..Len(time) :
                          /\ Deviation(f, time, vec, f.drop.n) <= Deviation(f, time, vec, time[i])
                          /\ time[i] < f.drop.n =>
                                Deviation(f, time, vec, f.drop.n) < Deviation(f, time, vec, time[i])

\* the case channel has been fitted with a breakpoint after the first day,
\* a later candidate has the same minimal sum, and the channel has more
\* unmasked values than edge points
C5_Witness ==
    /\ pc = "fits"
    /\ LET vec == R0_by_day["T"].a
           f   == fits["T"]
       IN  /\ ~f.none
           /\ f.drop.n > time[1]
           /\ ~REq(f.val_o, f.val_e)
           /\ Cardinality(ValidIdx(vec)) > extremal_points
           /\ \E i \in 1..Len(time) :
                 /\ time[i] > f.drop.n
                 /\ Deviation(f, time, vec, time[i]) = Deviation(f, time, vec, f.drop.n)
           /\ \E i \in 1..Len(time) :
                 Deviation(f, time, vec, time[i]) > Deviation(f, time, vec, f.drop.n)

\* C9: every fit the pipeline returns has a breakpoint that is a whole day
\* within the observed time range [min(time), max(time)], whether it is the
\* case fit alone or the average of the case fit and the shifted death fit.
C9_BreakpointInRange ==
    (pc = "done" /\ ~fit.none) =>
        /\ fit.drop.d > 0
        /\ fit.drop.n % fit.drop.d = 0
        /\ time[1] * fit.drop.d <= fit.drop.n
        /\ fit.drop.n <= time[Len(time)] * fit.drop.d

-----------------------------------------------------------------------------
(* Fitter (scenarios.py).  Counts are whole numbers, a missing or zero     *)
(* count is NaN, logarithms are in thousandths.  The good counts of the    *)
(* runs are powers of two, so that their logarithms are whole multiples of *)
(* ln 2 and the sign of a regression slope is exact.                       *)

doubling_time == 3
serial_interval == Rat(15, 2)
\* np.log(2), in thousandths
Ln2 == 693
fixed_slope == Rat(Ln2, 1000 * doubling_time)
cases_on_tMin == 10
under_reporting == 5
delay == 18
fatality_rate == Rat(2, 100)
\* np.log(cases_on_tMin * fatality_rate) = ln 0.2, in thousandths
LogDeathsOnTMin == -1609
\* np.log(cases_on_tMin) / under_reporting = ln(10) / 5, in thousandths
LogCasesOnTMin == 461
\* datetime.max.toordinal()
MaxOrdinal == 3652059

RMul(a, b) == Rat(a.n * b.n, a.d * b.d)

RECURSIVE Gcd(_, _)
Gcd(a, b) == IF b = 0 THEN a ELSE Gcd(b, a % b)

\* a fraction in lowest terms
RNorm(r) ==
    LET g == Gcd(Abs(r.n), r.d)
    IN  IF r.d = 0 THEN Rat(0, 0) ELSE Rat(r.n \div g, r.d \div g)

slope_to_r0(slope) == RNorm(RAdd(RInt(1), RMul(slope, serial_interval)))

\* np.log of a count that is a power of two
RECURSIVE Log2(_)
Log2(y) == IF y <= 1 THEN 0 ELSE 1 + Log2(y \div 2)
np_log(y) == Ln2 * Log2(y)

\* datetime: the proleptic Gregorian ordinal of a date and back
IsLeap(y) == y % 4 = 0 /\ (y % 100 # 0 \/ y % 400 = 0)
DaysBeforeMonthTable == <<0, 31, 59, 90, 120, 151, 181, 212, 243, 273, 304, 334>>
DaysInMonthTable == <<31, 28, 31, 30, 31, 30, 31, 31, 30, 31, 30, 31>>
DaysBeforeYear(y) ==
    (y - 1) * 365 + (y - 1) \div 4 - (y - 1) \div 100 + (y - 1) \div 400
DaysBeforeMonth(y, m) ==
    DaysBeforeMonthTable[m] + (IF m > 2 /\ IsLeap(y) THEN 1 ELSE 0)
ymd2ord(y, m, d) == DaysBeforeYear(y) + DaysBeforeMonth(y, m) + d
ord2ymd(ordinal) ==
    LET n0   == ordinal - 1
        n400 == n0 \div 146097
        r400 == n0 % 146097
        n100 == r400 \div 36524
        r100 == r400 % 36524
        n4   == r100 \div 1461
        r4   == r100 % 1461
        n1   == r4 \div 365
        n    == r4 % 365
        year == n400 * 400 + 1 + n100 * 100 + n4 * 4 + n1
        leapyear == n1 = 3 /\ (n4 # 24 \/ n100 = 3)
        m0   == (n + 50) \div 32
        p0   == DaysBeforeMonthTable[m0] + (IF m0 > 2 /\ leapyear THEN 1 ELSE 0)
        month == IF p0 > n THEN m0 - 1 ELSE m0
        preceding ==
            IF p0 > n
            THEN p0 - (DaysInMonthTable[m0 - 1] + (IF m0 - 1 = 2 /\ leapyear THEN 1 ELSE 0))
            ELSE p0
    IN  IF n1 = 4 \/ n100 = 4
        THEN [year |-> year - 1, month |-> 12, day |-> 31]
        ELSE [year |-> year, month |-> month, day |-> n - preceding + 1]

\* to_ms: the ordinal of the date a "YYYY-MM-DD" string names
to_ms(date) == ymd2ord(date.year, date.month, date.day)

\* from_ms on the whole part of its argument, an ordinal in 1..MaxOrdinal
\* (datetime.fromordinal raises on any other)
from_ms(ordinal) == ord2ymd(ordinal)

\* the slope of linregress(t, y), y in thousandths: with a[i] = N*t[i] - sum(t)
\* it is sum(a*y) / (sum(a*a) / N)
linregress_slope(t, y) ==
    LET N  == Len(t)
        a  == [i \in 1..N |-> N * t[i] - SumSeq(t)]
        sxy == SumSeq([i \in 1..N |-> a[i] * y[i]])
        sxx == SumSeq([i \in 1..N |-> a[i] * a[i]]) \div N
    IN  IF sxx = 0 THEN Rat(0, 0) ELSE Rat(sxy, 1000 * sxx)

\* the dictionary fit_cumulative returns, or None.  The intercept is
\* mean(logy) - mean(t) * slope; it is kept as the two sums and the number of
\* points it is computed from.
NoParams == [none |-> TRUE, tsum |-> 0, ysum |-> 0, num_data |-> 0, slope |-> Rat(0, 0)]
fit_cumulative(t, y) ==
    LET good_ind    == [i \in 1..Len(y) |-> ~y[i].nan /\ y[i].val > 3 /\ y[i].val < 500]
        t_subset    == Select(t, good_ind)
        y_subset    == Select(y, good_ind)
        logy_subset == [i \in 1..Len(y_subset) |-> np_log(y_subset[i].val)]
        num_data    == Len(t_subset)
    IN  IF num_data > 10
        THEN [none |-> FALSE, tsum |-> SumSeq(t_subset), ysum |-> SumSeq(logy_subset),
              num_data |-> num_data, slope |-> linregress_slope(t_subset, logy_subset)]
        ELSE IF num_data > 4
        THEN [none |-> FALSE, tsum |-> SumSeq(t_subset), ysum |-> SumSeq(logy_subset),
              num_data |-> num_data, slope |-> fixed_slope]
        ELSE NoParams

\* the whole part of (logc - intercept) / slope - shift for a positive slope:
\* mean(t) - shift + (logc - mean(logy)) / slope, rounded down
tMin_day(p, logc, shift) ==
    LET N  == p.num_data
        sn == p.slope.n
        X  == p.slope.d \div 1000
        tq == p.tsum \div N
        tr == p.tsum % N
    IN  tq - shift + ((tr * sn + (logc * N - p.ysum) * X) \div (N * sn))

Raised == [NoResult EXCEPT !.status = "raised"]
Absent == [NoResult EXCEPT !.status = "absent"]

\* the dictionary returned for a channel fit; from_ms raises ValueError when
\* the whole part of tMin is no ordinal of a date
FitResult(p, logc, shift) ==
    LET tMin == tMin_day(p, logc, shift)
    IN  IF tMin < 1 \/ tMin > MaxOrdinal THEN Raised
        ELSE [status |-> "fit", tMin |-> from_ms(tMin),
              initialCases |-> cases_on_tMin, r0 |-> slope_to_r0(p.slope)]

\* dp['cases'] or np.nan
OrNaN(v) == IF v = 0 THEN NaN ELSE Num(v)

\* Fitter.fit(pop).  np.array([]) of an empty pop has one dimension, and
\* data[:,0] raises IndexError.
Fitter_fit(population) ==
    IF Len(population) = 0 THEN Raised
    ELSE LET t  == [i \in 1..Len(population) |-> to_ms(population[i].time)]
             cs == [i \in 1..Len(population) |-> OrNaN(population[i].cases)]
             ds == [i \in 1..Len(population) |-> OrNaN(population[i].deaths)]
             pd == fit_cumulative(t, ds)
             pcs == fit_cumulative(t, cs)
         IN  IF ~pd.none /\ RLess(RInt(0), pd.slope)
             THEN FitResult(pd, LogDeathsOnTMin, delay)
             ELSE IF ~pcs.none /\ RLess(RInt(0), pcs.slope)
             THEN FitResult(pcs, LogCasesOnTMin, 0)
             ELSE Absent

\* longest pop of the runs
MaxPop == 12
\* ordinal of the first date of a pop (2020-02-25)
FirstOrdinal == 737480

\* counts outside (3, 500), by position: missing, 3 and 500
BadCount(i) == <<0, 3, 500>>[(i % 3) + 1]
\* the j-th good count of a rising, constant or falling run
GoodCount(j, shape) ==
    CASE shape = "up"   -> 2 ^ Min(j + 1, 8)
      [] shape = "flat" -> 16
      [] shape = "down" -> 2 ^ (IF j < 7 THEN 9 - j ELSE 2)

\* n counts of which the last k are good
CountSeries(n, k, shape) ==
    [i \in 1..n |-> IF i <= n - k THEN BadCount(i) ELSE GoodCount(i - (n - k), shape)]

Shapes == {"up", "flat", "down"}

Pops ==
    UNION {{[i \in 1..n |-> [time |-> ord2ymd(FirstOrdinal + i - 1),
                              cases |-> c[i], deaths |-> d[i]]] :
               c \in {CountSeries(n, k, sh) : k \in 0..n, sh \in Shapes},
               d \in {CountSeries(n, k, sh) : k \in 0..n, sh \in Shapes}} :
           n \in 0..MaxPop}

FitterFit ==
    /\ pc = "fitter"
    /\ fit_result' = Fitter_fit(pop)
    /\ pc' = IF Fitter_fit(pop).status = "raised" THEN "fit_raised" ELSE "returned"
    /\ UNCHANGED <<time, cases, step, extremal_points, diff_data, log_data,
                   smoothed_log_diff, data_log_smoothed, growth_rate, R0_by_day, fits,
                   fit, pop>>

InitFitter ==
    /\ pc = "fitter"
    /\ pop \in Pops
    /\ fit_result = NoResult
    /\ time = <<>> /\ step = 1 /\ extremal_points = ExtremalPoints
    /\ cases = NoData /\ diff_data = NoData /\ log_data = NoData
    /\ smoothed_log_diff = NoData /\ data_log_smoothed = NoData
    /\ growth_rate = NoData /\ R0_by_day = NoData
    /\ fits = NoFits /\ fit = NoFit

NextFitter == FitterFit

SpecFitter == InitFitter /\ [][NextFitter]_vars

-----------------------------------------------------------------------------
(* Properties of Fitter.fit *)

\* the positions of pop whose count is strictly between 3 and 500
GoodPoints(col) == {i \in 1..Len(pop) : pop[i][col] > 3 /\ pop[i][col] < 500}

\* the least-squares slope over the good points, from all pairs of points
PairSlope(col) ==
    LET G     == GoodPoints(col)
        pairs == {q \in G \X G : q[1] < q[2]}
        dt(q) == to_ms(pop[q[2]].time) - to_ms(pop[q[1]].time)
        dy(q) == np_log(pop[q[2]][col]) - np_log(pop[q[1]][col])
    IN  Rat(SumOver(pairs, [q \in pairs |-> dt(q) * dy(q)]),
            1000 * SumOver(pairs, [q \in pairs |-> dt(q) * dt(q)]))

\* the slope the channel fit has by the stated rule; none below 5 good points
RuleSlope(col) ==
    IF Cardinality(GoodPoints(col)) > 10 THEN PairSlope(col)
    ELSE IF Cardinality(GoodPoints(col)) >= 5 THEN Rat(Ln2, 3000)
    ELSE Rat(0, 0)

\* the result is a fit with initialCases 10 and r0 = 1 + slope * 7.5
IsFitWith(r, slope) ==
    /\ r.status = "fit"
    /\ r.initialCases = 10
    /\ r.r0 = RNorm(Rat(2 * slope.d + 15 * slope.n, 2 * slope.d))

\* the result by the preference order: deaths, then cases, then absent
ByPreference(r) ==
    IF RLess(RInt(0), RuleSlope("deaths")) THEN IsFitWith(r, RuleSlope("deaths"))
    ELSE IF RLess(RInt(0), RuleSlope("cases")) THEN IsFitWith(r, RuleSlope("cases"))
    ELSE r.status = "absent"

\* C10: Fitter.fit never raises on insufficient data and follows the
\* preference order: a channel with k counts strictly between 3 and 500 is
\* fitted by regression when k > 10, with the fixed slope ln(2)/3 when
\* 5 <= k <= 10 and not at all when k < 5; the deaths fit is returned when it
\* has a slope > 0, otherwise the cases fit when it has a slope > 0, otherwise
\* nothing; every result has initialCases = 10 and r0 = 1 + slope * 7.5.
C10_FitterPreference ==
    pc \in {"returned", "fit_raised"} =>
        /\ fit_result.status # "raised"
        /\ ByPreference(fit_result)

====
